---------------------------- MODULE Spec2Model ----------------------------
(***************************************************************************)
(* Document routes of meilisearch-http (routes/indexes/documents.rs):      *)
(* the routing table built by configure, the content-type guards, the      *)
(* request handlers and the payload_to_stream forwarder with its           *)
(* capacity-1 channel.  One request is in flight at a time; the forwarding *)
(* task, the backend consumer and the handler interleave freely.  The      *)
(* routing table is fixed once configure has run, so it is the definition  *)
(* configure and no variable.                                              *)
(*                                                                         *)
(* Spec is the service as a whole.  OutOfBandSpec is the service with a    *)
(* backend that reads a stream only after it has registered the update,    *)
(* IngestFairSpec one ingestion under fair scheduling, ConcSpec several    *)
(* mutation handlers running side by side.                                 *)
(***************************************************************************)
EXTENDS Integers, Sequences, FiniteSets, TLC

(***************************************************************************)
(* Bounds of the model.                                                    *)
(***************************************************************************)
MaxRequests == 2   \* requests served in one behaviour
MaxBody == 3       \* items (chunks or transport errors) one body yields
MaxAttrLen == 3    \* characters in one attributesToRetrieve value
MaxNumber == 2     \* largest offset or limit a query string carries
MaxIds == 3        \* values in one delete-batch body

(***************************************************************************)
(* Option values: None is the empty sequence, Some(x) the singleton.       *)
(***************************************************************************)
None == <<>>
Some(x) == <<x>>
IsSome(o) == o # <<>>
Unwrap(o) == o[1]

(***************************************************************************)
(* Header values are byte strings.  The two literals handed to             *)
(* guard_content_type!, and the header values the requests may carry.      *)
(***************************************************************************)
APPLICATION_JSON ==
    <<97, 112, 112, 108, 105, 99, 97, 116, 105, 111, 110, 47, 106, 115, 111, 110>>
APPLICATION_CSV ==
    <<97, 112, 112, 108, 105, 99, 97, 116, 105, 111, 110, 47, 99, 115, 118>>

\* "; charset=utf-8"
CharsetSuffix == <<59, 32, 99, 104, 97, 114, 115, 101, 116, 61, 117, 116, 102, 45, 56>>
\* "text/plain"
TextPlain == <<116, 101, 120, 116, 47, 112, 108, 97, 105, 110>>
\* "Application/JSON"
UpperJson == <<65, 112, 112, 108, 105, 99, 97, 116, 105, 111, 110, 47, 74, 83, 79, 78>>
\* a byte that is not visible ASCII (0xE9)
OpaqueByte == <<233>>

ContentTypes ==
    { None,
      Some(APPLICATION_JSON),
      Some(APPLICATION_CSV),
      Some(APPLICATION_JSON \o CharsetSuffix),
      Some(APPLICATION_CSV \o <<44, 32>> \o APPLICATION_JSON),
      Some(TextPlain),
      Some(UpperJson),
      Some(SubSeq(APPLICATION_JSON, 1, 15)),
      Some(APPLICATION_JSON \o OpaqueByte) }

\* HeaderValue::to_str: Ok only when every byte is visible ASCII or a tab.
to_str(value) ==
    IF \A i \in 1..Len(value) : (value[i] >= 32 /\ value[i] < 127) \/ value[i] = 9
    THEN Some(value)
    ELSE None

\* str::contains
contains(v, pat) ==
    \E i \in 0..(Len(v) - Len(pat)) : SubSeq(v, i + 1, i + Len(pat)) = pat

\* A guard that compares the header with the literal instead of searching it.
guard_content_type_eq(head, guard_value) ==
    IF IsSome(head.content_type)
    THEN LET s == to_str(Unwrap(head.content_type))
         IN  IF IsSome(s) THEN Unwrap(s) = guard_value ELSE FALSE
    ELSE FALSE

\* The function guard_content_type! expands to.
guard_content_type(head, guard_value) ==
    IF IsSome(head.content_type)
    THEN LET s == to_str(Unwrap(head.content_type))
         IN  IF IsSome(s) THEN contains(Unwrap(s), guard_value) ELSE FALSE
    ELSE FALSE

guard_json(head) == guard_content_type(head, APPLICATION_JSON)
guard_csv(head) == guard_content_type(head, APPLICATION_CSV)

(***************************************************************************)
(* The routing table.  A resource is a path pattern with its routes in     *)
(* registration order; a route is a method, an optional guard and the      *)
(* handler it leads to.                                                    *)
(***************************************************************************)
Lit(s) == <<"lit", s>>
Param(s) == <<"param", s>>

RouteTo(method, guard, to) == [method |-> method, guard |-> guard, to |-> to]

\* configure with the /{document_id} resource registered before /delete-batch.
configure_id_first ==
    << [ pattern |-> <<>>,
         routes |-> << RouteTo("GET", "none", "get_all_documents"),
                       RouteTo("POST", "guard_json", "add_documents_json"),
                       RouteTo("POST", "guard_csv", "add_documents_csv"),
                       RouteTo("POST", "guard_json", "update_documents_json"),
                       RouteTo("POST", "guard_csv", "update_documents_csv"),
                       RouteTo("DELETE", "none", "clear_all_documents") >> ],
       [ pattern |-> << Param("document_id") >>,
         routes |-> << RouteTo("GET", "none", "get_document"),
                       RouteTo("DELETE", "none", "delete_document") >> ],
       [ pattern |-> << Lit("delete-batch") >>,
         routes |-> << RouteTo("POST", "none", "delete_documents") >> ] >>

configure ==
    << [ pattern |-> <<>>,
         routes |-> << RouteTo("GET", "none", "get_all_documents"),
                       RouteTo("POST", "guard_json", "add_documents_json"),
                       RouteTo("POST", "guard_csv", "add_documents_csv"),
                       RouteTo("POST", "guard_json", "update_documents_json"),
                       RouteTo("POST", "guard_csv", "update_documents_csv"),
                       RouteTo("DELETE", "none", "clear_all_documents") >> ],
       [ pattern |-> << Lit("delete-batch") >>,
         routes |-> << RouteTo("POST", "none", "delete_documents") >> ],
       [ pattern |-> << Param("document_id") >>,
         routes |-> << RouteTo("GET", "none", "get_document"),
                       RouteTo("DELETE", "none", "delete_document") >> ] >>

\* A resource pattern matches a path of as many segments, literal segments
\* being equal and {param} segments matching any segment.
PatternMatches(pattern, path) ==
    /\ Len(pattern) = Len(path)
    /\ \A i \in 1..Len(pattern) :
          pattern[i][1] = "param" \/ pattern[i][2] = path[i]

GuardHolds(guard, head) ==
    CASE guard = "none" -> TRUE
      [] guard = "guard_json" -> guard_json(head)
      [] guard = "guard_csv" -> guard_csv(head)

RouteMatches(route, head) ==
    route.method = head.method /\ GuardHolds(route.guard, head)

\* The first matching resource serves the request; in it the first matching
\* route; a resource with no matching route answers 405, no resource 404.
Dispatch(table, head) ==
    LET rs == { i \in 1..Len(table) : PatternMatches(table[i].pattern, head.path) }
    IN  IF rs = {} THEN "404"
        ELSE LET res == table[CHOOSE i \in rs : \A j \in rs : i <= j]
                 ok == { k \in 1..Len(res.routes) : RouteMatches(res.routes[k], head) }
             IN  IF ok = {} THEN "405"
                 ELSE res.routes[CHOOSE k \in ok : \A j \in ok : k <= j].to


(***************************************************************************)
(* Inputs of the requests.                                                 *)
(***************************************************************************)
Methods == {"GET", "POST", "PUT", "DELETE"}
Paths == { <<>>, <<"delete-batch">>, <<"42">>, <<"42", "fields">> }
Indexes == {"movies", "books"}
PrimaryKeys == { None, Some("id") }

\* What payload.next() yields: Ok(Bytes) or Err(PayloadError).
Items == { <<"Ok", "a">>, <<"Ok", "b">>, <<"Err", "Incomplete">> }

\* serde_json::Value, as far as the delete-batch body needs it.
JString(s) == [type |-> "String", str |-> s]
JNumber(n) == [type |-> "Number", num |-> n]
JNull == [type |-> "Null"]
\* An object: its members as <<name, value>> pairs, in the order of the map
\* (serde_json's Map keeps its keys sorted).
JObject(members) == [type |-> "Object", members |-> members]
Values == { JString("a"), JNumber(3), JNull, JObject(<< <<"x", JNumber(1)>> >>) }

RECURSIVE SeqsUpTo(_, _)
SeqsUpTo(S, n) ==
    IF n = 0 THEN { <<>> }
    ELSE LET shorter == SeqsUpTo(S, n - 1)
         IN  shorter \cup { Append(q, x) : q \in shorter, x \in S }

\* The query string of a request: the value of each field it carries.  The
\* numbers stand for their decimal text, attributesToRetrieve is a sequence
\* of characters, `other` is a field no handler declares.
RawNumbers == (0 - 1)..MaxNumber
AttrChars == {"a", ",", "*"}
OptionOf(S) == {None} \cup { Some(x) : x \in S }
NoQuery ==
    [offset |-> None, limit |-> None, attributesToRetrieve |-> None,
     primaryKey |-> None, other |-> None]
\* Every window with and without a projection, and every projection with
\* and without an offset.
BrowseQueries ==
    [offset : OptionOf(RawNumbers), limit : OptionOf(RawNumbers),
     attributesToRetrieve : {None, Some(<<"a">>)},
     primaryKey : {None}, other : {None}]
    \cup
    [offset : {None, Some(1)}, limit : {None},
     attributesToRetrieve : OptionOf(SeqsUpTo(AttrChars, MaxAttrLen)),
     primaryKey : {None}, other : {None}]
UpdateQueries ==
    [offset : {None}, limit : {None}, attributesToRetrieve : {None},
     primaryKey : PrimaryKeys, other : {None}]
\* Query strings with a field of the other handler or of no handler.
StrayQueries ==
    [offset : {None, Some(0)}, limit : {None},
     attributesToRetrieve : {None, Some(<<"a">>)},
     primaryKey : PrimaryKeys, other : {None, Some("x")}]
    \ {NoQuery}

\* The documents of an index, in the order the backend lists them.
Stored == <<"d1", "d2", "d3">>

\* Errors register_update, document and documents may return.
BackendErrors == {"IndexNotFound", "Internal"}

\* DocumentAdditionFormat and IndexDocumentsMethod handed on by the four
\* public addition handlers.
add_documents_json == [format |-> "Json", method |-> "ReplaceDocuments"]
add_documents_csv == [format |-> "Csv", method |-> "ReplaceDocuments"]
update_documents_json == [format |-> "Json", method |-> "UpdateDocuments"]
update_documents_csv == [format |-> "Csv", method |-> "UpdateDocuments"]

AdditionHandlers ==
    { "add_documents_json", "add_documents_csv",
      "update_documents_json", "update_documents_csv" }

AdditionArgs(h) ==
    CASE h = "add_documents_json" -> add_documents_json
      [] h = "add_documents_csv" -> add_documents_csv
      [] h = "update_documents_json" -> update_documents_json
      [] h = "update_documents_csv" -> update_documents_csv

\* mpsc::channel(2)
ChannelCapacityTwo == 1 + 1

\* mpsc::channel(1)
ChannelCapacity == 1

(***************************************************************************)
(* State.                                                                  *)
(***************************************************************************)
VARIABLES
    served,      \* requests that have arrived so far
    pc,          \* where the request in flight stands
    req,         \* its head: method, path, Content-Type
    handler,     \* the handler it was dispatched to, or "404" / "405"
    pending,     \* the register_update call in flight, if any
    calls,       \* register_update calls this request has made
    ret,         \* what the awaited backend call returned
    resp,        \* the response of the request
    next_id,     \* the backend: the next update identifier of each index
    registered,  \* the update record the backend created for this request
    fwd,         \* the forwarding task: "none", "next", "send", "done"
    data,        \* the item the forwarding task holds while it sends
    chan,        \* the items buffered in the channel
    rx,          \* the receiving stream: "none", "open", "eos", "dropped"
    yielded,     \* the items the body source has yielded so far
    received,    \* the items the consumer has taken from the stream
    sendErrs,    \* sends that returned an error (results the task discards)
    query,       \* the query string of the request, as its handler met it
    json_body,   \* the JSON body of a delete-batch request
    documents_call, \* the arguments of the request's call of `documents`
    conc         \* the mutation requests served side by side

reqVars == <<pc, req, handler, pending, calls, ret, resp>>
argVars == <<query, json_body, documents_call>>
streamVars == <<fwd, data, chan, rx, yielded, received, sendErrs>>
backendVars == <<next_id, registered>>
vars == <<served, reqVars, argVars, backendVars, streamVars, conc>>

\* The mutation requests in flight together, and one that has not begun.
NumConc == 2
Requests == 1..NumConc
Waiting == [pc |-> "idle"]

NoRequest == [method |-> "", index_uid |-> "", path |-> <<>>, content_type |-> None]

Init ==
    /\ served = 0
    /\ pc = "idle"
    /\ req = NoRequest
    /\ handler = ""
    /\ pending = None
    /\ calls = 0
    /\ ret = None
    /\ resp = None
    /\ next_id = [i \in Indexes |-> 0]
    /\ registered = None
    /\ fwd = "none"
    /\ data = None
    /\ chan = <<>>
    /\ rx = "none"
    /\ yielded = <<>>
    /\ received = <<>>
    /\ sendErrs = 0
    /\ query = None
    /\ json_body = None
    /\ documents_call = None
    /\ conc = [r \in Requests |-> Waiting]

\* A request arrives at the idle service.
Arrive ==
    /\ pc = "idle"
    /\ served < MaxRequests
    /\ served' = served + 1
    /\ \E m \in Methods, i \in Indexes, p \in Paths, ct \in ContentTypes :
          req' = [method |-> m, index_uid |-> i, path |-> p, content_type |-> ct]
    /\ pc' = "arrived"
    /\ UNCHANGED <<handler, pending, calls, ret, resp, backendVars,
                   streamVars, argVars, conc>>

\* The request has been answered and its ingestion, if any, has come to
\* rest: its state is dropped and the service is idle again.
Retire ==
    /\ pc = "done"
    /\ fwd \in {"none", "done"}
    /\ rx \in {"none", "eos", "dropped"}
    /\ pc' = "idle"
    /\ req' = NoRequest
    /\ handler' = ""
    /\ pending' = None
    /\ calls' = 0
    /\ ret' = None
    /\ resp' = None
    /\ registered' = None
    /\ fwd' = "none"
    /\ data' = None
    /\ chan' = <<>>
    /\ rx' = "none"
    /\ yielded' = <<>>
    /\ received' = <<>>
    /\ sendErrs' = 0
    /\ query' = None
    /\ json_body' = None
    /\ documents_call' = None
    /\ UNCHANGED <<served, conc, next_id>>

\* The service dispatches the request through the routing table.
Route ==
    /\ pc = "arrived"
    /\ LET to == Dispatch(configure, req)
       IN  /\ handler' = to
           /\ IF to \in {"404", "405"}
              THEN /\ pc' = "done"
                   /\ resp' = Some([status |-> IF to = "404" THEN 404 ELSE 405])
              ELSE /\ pc' = "handler"
                   /\ resp' = resp
    /\ UNCHANGED <<served, conc, argVars,
                   req, pending, calls, ret, backendVars, streamVars>>

(***************************************************************************)
(* Update intents (meilisearch_lib::index_controller::Update).  The        *)
(* payload of a DocumentAddition is the receiving stream, held in the      *)
(* stream variables.                                                       *)
(***************************************************************************)
DocumentAddition(primary_key, method, format) ==
    [kind |-> "DocumentAddition", primary_key |-> primary_key,
     method |-> method, format |-> format]
DeleteDocuments(ids) == [kind |-> "DeleteDocuments", ids |-> ids]
ClearDocuments == [kind |-> "ClearDocuments"]

\* Value::to_string: the compact JSON text of a value.  The strings of the
\* model hold no character that JSON escapes.
RECURSIVE json_to_string(_)
RECURSIVE members_to_string(_)
json_to_string(v) ==
    CASE v.type = "String" -> "\"" \o v.str \o "\""
      [] v.type = "Number" -> ToString(v.num)
      [] v.type = "Null" -> "null"
      [] v.type = "Object" -> "{" \o members_to_string(v.members) \o "}"

\* The members of an object, separated by commas.
members_to_string(ms) ==
    IF ms = <<>> THEN ""
    ELSE LET member == "\"" \o ms[1][1] \o "\":" \o json_to_string(ms[1][2])
         IN  IF Len(ms) = 1 THEN member
             ELSE member \o "," \o members_to_string(Tail(ms))

\* Value::as_str
as_str(v) == IF v.type = "String" THEN Some(v.str) ELSE None

(***************************************************************************)
(* The query extractors (web::Query<BrowseQuery>,                          *)
(* web::Query<UpdateDocumentsQuery>): serde deserialization of the query   *)
(* string.                                                                 *)
(***************************************************************************)
Ok(v) == [ok |-> TRUE, value |-> v]
Err(e) == [ok |-> FALSE, err |-> e]

\* A field of type usize: the text of a negative number is not one.
usize_from_str(raw) == IF raw >= 0 THEN Ok(raw) ELSE Err("invalid digit")

\* Option<usize>
option_usize(field) ==
    IF field = None THEN Ok(None)
    ELSE LET n == usize_from_str(Unwrap(field))
         IN  IF n.ok THEN Ok(Some(n.value)) ELSE n

\* BrowseQuery: camelCase names, deny_unknown_fields.
BrowseQuery(q) ==
    IF IsSome(q.primaryKey) \/ IsSome(q.other) THEN Err("unknown field")
    ELSE LET offset == option_usize(q.offset)
             limit == option_usize(q.limit)
         IN  IF ~offset.ok THEN offset
             ELSE IF ~limit.ok THEN limit
             ELSE Ok([offset |-> offset.value, limit |-> limit.value,
                      attributes_to_retrieve |-> q.attributesToRetrieve])

\* UpdateDocumentsQuery without deny_unknown_fields.
UpdateDocumentsQuery_lenient(q) == Ok([primary_key |-> q.primaryKey])

\* UpdateDocumentsQuery: camelCase names, deny_unknown_fields.
UpdateDocumentsQuery(q) ==
    IF \/ IsSome(q.offset) \/ IsSome(q.limit)
       \/ IsSome(q.attributesToRetrieve) \/ IsSome(q.other)
    THEN Err("unknown field")
    ELSE Ok([primary_key |-> q.primaryKey])

\* The response to a request whose query string does not deserialize.
QueryPayloadError == [status |-> 400, error |-> "QueryPayloadError"]

\* Option::unwrap_or
unwrap_or(o, default) == IF o = None THEN default ELSE Unwrap(o)

DEFAULT_RETRIEVE_DOCUMENTS_OFFSET == 0
DEFAULT_LIMIT_ZERO == DEFAULT_RETRIEVE_DOCUMENTS_OFFSET
DEFAULT_RETRIEVE_DOCUMENTS_LIMIT == 20

\* str::split(','): the pieces between the commas, empty pieces included.
RECURSIVE split(_, _)
split(s, sep) ==
    IF \A i \in 1..Len(s) : s[i] # sep THEN << s >>
    ELSE LET i == CHOOSE i \in 1..Len(s) :
                     s[i] = sep /\ \A j \in 1..(i - 1) : s[j] # sep
         IN  << SubSeq(s, 1, i - 1) >> \o split(SubSeq(s, i + 1, Len(s)), sep)

\* A projection that gives up at any `*` in the text.
attributes_to_retrieve_any_star(attrs) ==
    IF attrs = None THEN None
    ELSE IF \E i \in 1..Len(Unwrap(attrs)) : Unwrap(attrs)[i] = "*" THEN None
    ELSE Some(split(Unwrap(attrs), ","))

\* params.attributes_to_retrieve.as_ref().and_then(..): no projection when
\* a name is "*", the names otherwise.
attributes_to_retrieve(attrs) ==
    IF attrs = None THEN None
    ELSE LET names == split(Unwrap(attrs), ",")
         IN  IF \E i \in 1..Len(names) : names[i] = <<"*">> THEN None
             ELSE Some(names)

\* The backend (MeiliSearch::documents): the stored documents from position
\* offset on, limit of them at most.
documents(index_uid, offset, limit, attrs) ==
    LET last == IF offset + limit < Len(Stored) THEN offset + limit ELSE Len(Stored)
    IN  SubSeq(Stored, offset + 1, last)

(***************************************************************************)
(* Pieces the handlers share.                                              *)
(***************************************************************************)
\* meilisearch.register_update(index_uid, update, is_async), up to its await.
CallRegisterUpdate(index_uid, update, is_async) ==
    /\ pending' = Some([index_uid |-> index_uid, update |-> update,
                        is_async |-> is_async])
    /\ calls' = calls + 1
    /\ pc' = "await"

\* A handler that acknowledges with 200 OK and no updateId.
AcceptedAsOk(update_status) == [status |-> 200, updateId |-> 0]

\* HttpResponse::Accepted().json(json!({ "updateId": update_status.id() }))
Accepted(update_status) == [status |-> 202, updateId |-> update_status.id]

\* The error response a ResponseError becomes.
ErrorResponse(e) == [status |-> IF e = "IndexNotFound" THEN 404 ELSE 500, error |-> e]

\* A tail that acknowledges whatever register_update returned.
ReturnAfterIgnoringError(result) ==
    IF result.ok THEN Accepted(result) ELSE Accepted([id |-> 0])

\* The tail of a mutation handler: `.await?` and the 202 response.
ReturnAfterRegister(result) ==
    IF result.ok THEN Accepted(result) ELSE ErrorResponse(result.err)

\* The handler resumes after its awaited call and returns its response.
Resume(h, response) ==
    /\ pc = "resumed"
    /\ handler = h
    /\ resp' = Some(response)
    /\ pc' = "done"
    /\ UNCHANGED <<served, conc, argVars,
                   req, handler, pending, calls, ret, backendVars,
                   streamVars>>

ResumeRegister(h) == Resume(h, ReturnAfterRegister(Unwrap(ret)))

(***************************************************************************)
(* payload_to_stream: the channel, the spawned forwarding task and the     *)
(* ReceiverStream handed to the backend.                                   *)
(***************************************************************************)
payload_to_stream ==
    /\ fwd' = "next"
    /\ data' = None
    /\ chan' = <<>>
    /\ rx' = "open"
    /\ yielded' = <<>>
    /\ received' = <<>>
    /\ sendErrs' = 0

\* A loop head that stops at the first transport error.
forwarder_next_until_error ==
    /\ fwd = "next"
    /\ \/ /\ Len(yielded) < MaxBody
          /\ \E item \in Items :
                /\ yielded' = Append(yielded, item)
                /\ IF item[1] = "Ok"
                   THEN fwd' = "send" /\ data' = Some(item)
                   ELSE fwd' = "done" /\ data' = None
       \/ /\ fwd' = "done"
          /\ UNCHANGED <<yielded, data>>
    /\ UNCHANGED <<served, conc, argVars,
                   reqVars, backendVars, chan, rx, received, sendErrs>>

\* `while let Some(data) = payload.next().await`: the body yields its next
\* item, or None, which ends the task and drops the sender.
forwarder_next ==
    /\ fwd = "next"
    /\ \/ /\ Len(yielded) < MaxBody
          /\ \E item \in Items :
                /\ yielded' = Append(yielded, item)
                /\ data' = Some(item)
          /\ fwd' = "send"
       \/ /\ fwd' = "done"
          /\ UNCHANGED <<yielded, data>>
    /\ UNCHANGED <<served, conc, argVars,
                   reqVars, backendVars, chan, rx, received, sendErrs>>

\* A send that gives up when the channel is full (try_send).
forwarder_try_send ==
    /\ fwd = "send"
    /\ IF rx # "open"
       THEN UNCHANGED chan /\ sendErrs' = sendErrs + 1
       ELSE IF Len(chan) < ChannelCapacity
            THEN chan' = Append(chan, Unwrap(data)) /\ UNCHANGED sendErrs
            ELSE UNCHANGED chan /\ sendErrs' = sendErrs + 1
    /\ data' = None
    /\ fwd' = "next"
    /\ UNCHANGED <<served, conc, argVars, reqVars, backendVars, rx, yielded, received>>

\* A send that waits for room even when the receiver is gone.
forwarder_send_blocking ==
    /\ fwd = "send"
    /\ rx = "open"
    /\ Len(chan) < ChannelCapacity
    /\ chan' = Append(chan, Unwrap(data))
    /\ data' = None
    /\ fwd' = "next"
    /\ UNCHANGED <<served, conc, argVars, reqVars, backendVars, rx, yielded, received,
                   sendErrs>>

\* `let _ = snd.send(data).await;`: the send completes when the channel has
\* room, fails at once when the receiver is gone, and waits otherwise.  The
\* result is discarded and the loop goes on.
forwarder_send ==
    /\ fwd = "send"
    /\ \/ /\ rx = "open"
          /\ Len(chan) < ChannelCapacity
          /\ chan' = Append(chan, Unwrap(data))
          /\ UNCHANGED sendErrs
       \/ /\ rx # "open"
          /\ sendErrs' = sendErrs + 1
          /\ UNCHANGED chan
    /\ data' = None
    /\ fwd' = "next"
    /\ UNCHANGED <<served, conc, argVars, reqVars, backendVars, rx, yielded, received>>

\* The consumer polls the ReceiverStream: the next buffered item, or the
\* end of the stream once the sender is dropped and the buffer is empty.
stream_next ==
    /\ rx = "open"
    /\ \/ /\ chan # <<>>
          /\ received' = Append(received, Head(chan))
          /\ chan' = Tail(chan)
          /\ UNCHANGED rx
       \/ /\ chan = <<>>
          /\ fwd = "done"
          /\ rx' = "eos"
          /\ UNCHANGED <<chan, received>>
    /\ UNCHANGED <<served, conc, argVars,
                   reqVars, backendVars, fwd, data, yielded, sendErrs>>

\* The consumer drops the ReceiverStream: the channel closes and what it
\* buffered is dropped with it.
stream_drop ==
    /\ rx = "open"
    /\ rx' = "dropped"
    /\ chan' = <<>>
    /\ UNCHANGED <<served, conc, argVars,
                   reqVars, backendVars, fwd, data, yielded, received,
                   sendErrs>>

(***************************************************************************)
(* The handlers.  Each runs to its awaited backend call, and resumes when  *)
(* the call has returned.                                                  *)
(***************************************************************************)
\* The backend's answers to document and documents.
ReadResults == { [ok |-> TRUE] } \cup { [ok |-> FALSE, err |-> e] : e \in BackendErrors }

ReadResponse(result) ==
    IF result.ok THEN [status |-> 200] ELSE ErrorResponse(result.err)

get_document ==
    /\ pc = "handler"
    /\ handler = "get_document"
    /\ \E document \in ReadResults : resp' = Some(ReadResponse(document))
    /\ pc' = "done"
    /\ UNCHANGED <<served, conc, argVars,
                   req, handler, pending, calls, ret, backendVars,
                   streamVars>>

get_all_documents ==
    /\ pc = "handler"
    /\ handler = "get_all_documents"
    /\ \E q \in BrowseQueries \cup StrayQueries :
          /\ query' = Some(q)
          /\ LET params == BrowseQuery(q)
             IN  IF ~params.ok
                 THEN /\ documents_call' = None
                      /\ resp' = Some(QueryPayloadError)
                 ELSE LET offset == unwrap_or(params.value.offset,
                                              DEFAULT_RETRIEVE_DOCUMENTS_OFFSET)
                          limit == unwrap_or(params.value.limit,
                                             DEFAULT_RETRIEVE_DOCUMENTS_LIMIT)
                          attrs == attributes_to_retrieve(
                                       params.value.attributes_to_retrieve)
                      IN  /\ documents_call' =
                                Some([index_uid |-> req.index_uid, offset |-> offset,
                                      limit |-> limit,
                                      attributes_to_retrieve |-> attrs])
                          /\ \/ resp' = Some([status |-> 200,
                                              documents |-> documents(req.index_uid,
                                                               offset, limit, attrs)])
                             \/ \E e \in BackendErrors :
                                   resp' = Some(ErrorResponse(e))
    /\ pc' = "done"
    /\ UNCHANGED <<served, conc, json_body, req, handler, pending, calls, ret,
                   backendVars, streamVars>>

\* delete_document that registers its update as an asynchronous one.
delete_document_async ==
    \/ /\ pc = "handler"
       /\ handler = "delete_document"
       /\ LET document_id == req.path[1]
              update == DeleteDocuments(<<document_id>>)
          IN  CallRegisterUpdate(req.index_uid, update, TRUE)
       /\ UNCHANGED <<served, conc, argVars,
                      req, handler, ret, resp, backendVars, streamVars>>
    \/ ResumeRegister("delete_document")

delete_document ==
    \/ /\ pc = "handler"
       /\ handler = "delete_document"
       /\ LET document_id == req.path[1]
              update == DeleteDocuments(<<document_id>>)
          IN  CallRegisterUpdate(req.index_uid, update, FALSE)
       /\ UNCHANGED <<served, conc, argVars,
                      req, handler, ret, resp, backendVars, streamVars>>
    \/ ResumeRegister("delete_document")

\* An addition handler that calls register_update with no channel made and
\* no forwarding task spawned.
document_addition_call_unspawned(format, method) ==
    /\ pc = "handler"
    /\ handler \in AdditionHandlers
    /\ AdditionArgs(handler) = [format |-> format, method |-> method]
    /\ \E q \in UpdateQueries \cup StrayQueries :
          /\ query' = Some(q)
          /\ LET params == UpdateDocumentsQuery(q)
             IN  IF ~params.ok
                 THEN /\ resp' = Some(QueryPayloadError)
                      /\ pc' = "done"
                      /\ UNCHANGED <<pending, calls>>
                 ELSE /\ CallRegisterUpdate(req.index_uid,
                            DocumentAddition(params.value.primary_key, method, format),
                            TRUE)
                      /\ UNCHANGED resp
    /\ UNCHANGED <<served, conc, json_body, documents_call, req, handler, ret,
                   backendVars, streamVars>>

\* A public addition handler up to its awaited call: the extractor of its
\* query string, which answers for the handler when it fails, then
\* document_addition with the primary key of the query, up to the await of
\* register_update.
document_addition_call(format, method) ==
    /\ pc = "handler"
    /\ handler \in AdditionHandlers
    /\ AdditionArgs(handler) = [format |-> format, method |-> method]
    /\ \E q \in UpdateQueries \cup StrayQueries :
          /\ query' = Some(q)
          /\ LET params == UpdateDocumentsQuery(q)
             IN  IF ~params.ok
                 THEN /\ resp' = Some(QueryPayloadError)
                      /\ pc' = "done"
                      /\ UNCHANGED <<pending, calls, streamVars>>
                 ELSE /\ payload_to_stream
                      /\ CallRegisterUpdate(req.index_uid,
                            DocumentAddition(params.value.primary_key, method, format),
                            TRUE)
                      /\ UNCHANGED resp
    /\ UNCHANGED <<served, conc, json_body, documents_call, req, handler, ret,
                   backendVars>>

\* document_addition that joins the forwarding task before it answers.
document_addition_joining(format, method) ==
    \/ document_addition_call(format, method)
    \/ /\ handler \in AdditionHandlers
       /\ AdditionArgs(handler) = [format |-> format, method |-> method]
       /\ fwd = "done"
       /\ ResumeRegister(handler)

\* document_addition, called by the four public handlers with their format
\* and method.
document_addition(format, method) ==
    \/ document_addition_call(format, method)
    \/ /\ handler \in AdditionHandlers
       /\ AdditionArgs(handler) = [format |-> format, method |-> method]
       /\ ResumeRegister(handler)

\* The ids of a delete batch, every value through to_string.
ids_to_string(body) == [i \in 1..Len(body) |-> json_to_string(body[i])]

\* The ids of a delete batch: body.iter().map(|v| v.as_str().map(String::from)
\* .unwrap_or_else(|| v.to_string())).collect()
ids(body) ==
    [i \in 1..Len(body) |->
        IF IsSome(as_str(body[i])) THEN Unwrap(as_str(body[i]))
                                   ELSE json_to_string(body[i])]

delete_documents ==
    \/ /\ pc = "handler"
       /\ handler = "delete_documents"
       /\ \E body \in SeqsUpTo(Values, MaxIds) :
             /\ json_body' = Some(body)
             /\ CallRegisterUpdate(req.index_uid, DeleteDocuments(ids(body)), FALSE)
       /\ UNCHANGED <<served, conc, query, documents_call, req, handler, ret, resp,
                      backendVars, streamVars>>
    \/ ResumeRegister("delete_documents")

\* clear_all_documents with a retry of the failed registration.
clear_all_documents_retrying ==
    \/ /\ pc = "handler"
       /\ handler = "clear_all_documents"
       /\ CallRegisterUpdate(req.index_uid, ClearDocuments, FALSE)
       /\ UNCHANGED <<served, conc, argVars,
                      req, handler, ret, resp, backendVars, streamVars>>
    \/ /\ pc = "resumed"
       /\ handler = "clear_all_documents"
       /\ ~Unwrap(ret).ok
       /\ calls < 2
       /\ CallRegisterUpdate(req.index_uid, ClearDocuments, FALSE)
       /\ UNCHANGED <<served, conc, argVars,
                      req, handler, ret, resp, backendVars, streamVars>>
    \/ /\ pc = "resumed"
       /\ Unwrap(ret).ok \/ calls >= 2
       /\ ResumeRegister("clear_all_documents")

clear_all_documents ==
    \/ /\ pc = "handler"
       /\ handler = "clear_all_documents"
       /\ CallRegisterUpdate(req.index_uid, ClearDocuments, FALSE)
       /\ UNCHANGED <<served, conc, argVars,
                      req, handler, ret, resp, backendVars, streamVars>>
    \/ ResumeRegister("clear_all_documents")

(***************************************************************************)
(* The backend (MeiliSearch::register_update): it creates the update       *)
(* record with the next identifier of the index, or fails and creates      *)
(* nothing; a failed call drops the update it was handed, and with it the  *)
(* stream of a document addition.                                          *)
(***************************************************************************)
register_update ==
    /\ pc = "await"
    /\ IsSome(pending)
    /\ LET call == Unwrap(pending)
       IN  \/ /\ LET id == next_id[call.index_uid]
                 IN  /\ next_id' = [next_id EXCEPT ![call.index_uid] = id + 1]
                     /\ registered' = Some([index_uid |-> call.index_uid, id |-> id,
                                            update |-> call.update,
                                            is_async |-> call.is_async])
                     /\ ret' = Some([ok |-> TRUE, id |-> id])
              /\ UNCHANGED <<rx, chan>>
           \/ /\ \E e \in BackendErrors : ret' = Some([ok |-> FALSE, err |-> e])
              /\ rx' = IF rx = "open" THEN "dropped" ELSE rx
              /\ chan' = <<>>
              /\ UNCHANGED <<next_id, registered>>
    /\ pending' = None
    /\ pc' = "resumed"
    /\ UNCHANGED <<served, conc, argVars, req, handler, calls, resp, fwd, data, yielded,
                   received, sendErrs>>

Next ==
    \/ Arrive
    \/ Retire
    \/ Route
    \/ get_document
    \/ get_all_documents
    \/ delete_document
    \/ \E h \in AdditionHandlers :
          document_addition(AdditionArgs(h).format, AdditionArgs(h).method)
    \/ delete_documents
    \/ clear_all_documents
    \/ register_update
    \/ forwarder_next
    \/ forwarder_send
    \/ stream_next
    \/ stream_drop

Spec == Init /\ [][Next]_vars

(***************************************************************************)
(* The service with a backend that ingests out-of-band: it takes nothing   *)
(* from the stream of a document addition before it has registered the     *)
(* update, and a call that fails drops the stream untouched.               *)
(***************************************************************************)
ingest_next == IsSome(registered) /\ stream_next

ingest_drop == IsSome(registered) /\ stream_drop

OutOfBandNext ==
    \/ Arrive
    \/ Retire
    \/ Route
    \/ get_document
    \/ get_all_documents
    \/ delete_document
    \/ \E h \in AdditionHandlers :
          document_addition(AdditionArgs(h).format, AdditionArgs(h).method)
    \/ delete_documents
    \/ clear_all_documents
    \/ register_update
    \/ forwarder_next
    \/ forwarder_send
    \/ ingest_next
    \/ ingest_drop

OutOfBandSpec == Init /\ [][OutOfBandNext]_vars

(***************************************************************************)
(* One ingestion under fair scheduling.  It starts where add_documents_json*)
(* has built its stream and awaits register_update.  The runtime keeps     *)
(* polling the spawned forwarding task, and the consumer keeps polling the *)
(* stream for as long as it holds it; it may drop it at any time.          *)
(***************************************************************************)
IngestInit ==
    /\ served = 1
    /\ pc = "await"
    /\ req = [method |-> "POST", index_uid |-> "movies", path |-> <<>>,
              content_type |-> Some(APPLICATION_JSON)]
    /\ handler = "add_documents_json"
    /\ pending = Some([index_uid |-> "movies",
                       update |-> DocumentAddition(None, "ReplaceDocuments", "Json"),
                       is_async |-> TRUE])
    /\ calls = 1
    /\ ret = None
    /\ resp = None
    /\ next_id = [i \in Indexes |-> 0]
    /\ registered = None
    /\ fwd = "next"
    /\ data = None
    /\ chan = <<>>
    /\ rx = "open"
    /\ yielded = <<>>
    /\ received = <<>>
    /\ sendErrs = 0
    /\ query = Some(NoQuery)
    /\ json_body = None
    /\ documents_call = None
    /\ conc = [r \in Requests |-> Waiting]

IngestNext ==
    \/ register_update
    \/ ResumeRegister("add_documents_json")
    \/ forwarder_next
    \/ forwarder_send
    \/ stream_next
    \/ stream_drop

IngestFairSpec ==
    /\ IngestInit
    /\ [][IngestNext]_vars
    /\ WF_vars(forwarder_next)
    /\ WF_vars(forwarder_send)
    /\ WF_vars(stream_next)

(***************************************************************************)
(* Mutation requests served side by side.  Each request is a handler call  *)
(* of its own: it builds its update, awaits its own register_update call   *)
(* and answers from the value that call returned.  The backend serves the  *)
(* calls one at a time, in any order.  The streams of the additions are    *)
(* left out here.                                                          *)
(***************************************************************************)
ConcurrentHandlers == {"add_documents_json", "clear_all_documents"}

ConcurrentUpdate(h) ==
    IF h = "clear_all_documents" THEN ClearDocuments
    ELSE DocumentAddition(None, AdditionArgs(h).method, AdditionArgs(h).format)

\* The handler of request r runs to its `register_update(..).await`.
concurrent_call(r) ==
    /\ conc[r].pc = "idle"
    /\ \E h \in ConcurrentHandlers, i \in Indexes :
          conc' = [conc EXCEPT ![r] =
                      [pc |-> "await", handler |-> h, index_uid |-> i,
                       update |-> ConcurrentUpdate(h),
                       is_async |-> (h \in AdditionHandlers)]]
    /\ UNCHANGED <<served, reqVars, argVars, backendVars, streamVars>>

\* The backend serves the call of request r: it records the update under
\* the next identifier of the index, or fails.
concurrent_register_update(r) ==
    /\ conc[r].pc = "await"
    /\ \/ LET id == next_id[conc[r].index_uid]
          IN  /\ next_id' = [next_id EXCEPT ![conc[r].index_uid] = id + 1]
              /\ conc' = [conc EXCEPT ![r] =
                             [pc |-> "resumed", handler |-> conc[r].handler,
                              index_uid |-> conc[r].index_uid,
                              ret |-> [ok |-> TRUE, id |-> id],
                              recorded |-> Some(id)]]
       \/ /\ \E e \in BackendErrors :
                conc' = [conc EXCEPT ![r] =
                            [pc |-> "resumed", handler |-> conc[r].handler,
                             index_uid |-> conc[r].index_uid,
                             ret |-> [ok |-> FALSE, err |-> e],
                             recorded |-> None]]
          /\ UNCHANGED next_id
    /\ UNCHANGED <<served, reqVars, argVars, registered, streamVars>>

\* A handler that answers with the newest identifier of its index.
concurrent_return_newest(r) ==
    /\ conc[r].pc = "resumed"
    /\ conc' = [conc EXCEPT ![r] =
                   [pc |-> "done", handler |-> conc[r].handler,
                    index_uid |-> conc[r].index_uid,
                    recorded |-> conc[r].recorded,
                    resp |-> IF conc[r].ret.ok
                             THEN Accepted([id |-> next_id[conc[r].index_uid] - 1])
                             ELSE ErrorResponse(conc[r].ret.err)]]
    /\ UNCHANGED <<served, reqVars, argVars, backendVars, streamVars>>

\* The handler of request r resumes and answers from its own update_status.
concurrent_return(r) ==
    /\ conc[r].pc = "resumed"
    /\ conc' = [conc EXCEPT ![r] =
                   [pc |-> "done", handler |-> conc[r].handler,
                    index_uid |-> conc[r].index_uid,
                    recorded |-> conc[r].recorded,
                    resp |-> ReturnAfterRegister(conc[r].ret)]]
    /\ UNCHANGED <<served, reqVars, argVars, backendVars, streamVars>>

ConcNext ==
    \/ \E r \in Requests : concurrent_call(r)
    \/ \E r \in Requests : concurrent_register_update(r)
    \/ \E r \in Requests : concurrent_return(r)

ConcSpec == Init /\ [][ConcNext]_vars

(***************************************************************************)
(* Properties.                                                             *)
(***************************************************************************)
MutationHandlers ==
    AdditionHandlers \cup {"delete_document", "delete_documents", "clear_all_documents"}
ReadHandlers == {"get_document", "get_all_documents"}

\* The items taken from the body source and not yet taken by the consumer:
\* those buffered in the channel and the one the forwarding task holds.
Unconsumed == Len(chan) + Len(data)

\* C1 (payload streamer ordering): while the consumer holds the stream, the
\* items the body has yielded are exactly the items the consumer has
\* received, followed by those in the channel, followed by the one the
\* forwarding task holds, in the body's order; and a consumer that reaches
\* the end of the stream has received exactly the sequence the body yielded.
C1_StreamPreservesSequence ==
    /\ rx = "open" => yielded = received \o chan \o data
    /\ rx = "eos" => received = yielded

\* A consumer has drained a body of MaxBody items with two different first
\* items.
C1_Witness ==
    /\ rx = "eos"
    /\ Len(received) = MaxBody
    /\ received[1] # received[2]

\* C2 as claimed: at most one item is taken from the body and not yet taken
\* by the consumer.
C2_AtMostOneUnconsumed == Unconsumed <= 1

\* C2 (bounded memory), amended: at most two items are taken from the body
\* and not yet taken by the consumer, one buffered in the capacity-1
\* channel and one held by the forwarding task that waits to send it.
C2_AtMostTwoUnconsumed == Unconsumed <= 2

\* The channel is full and the forwarding task holds a further item, with
\* the consumer still there.
C2_Witness ==
    /\ rx = "open"
    /\ Len(chan) = 1
    /\ fwd = "send"
    /\ Unconsumed = 2

\* C3 (cancellation of the forwarder): once a send has failed because the
\* consumer is gone, the forwarding task takes no further item from the
\* body source.
C3_NoTakeAfterFailedSend ==
    [][sendErrs > 0 => Len(yielded') <= Len(yielded)]_vars

\* C4 (transport-error propagation): an error the body yielded as its i-th
\* item is the i-th item of the stream: the consumer that has taken i items
\* has it as the i-th, a consumer that holds the stream and has taken fewer
\* finds it still on its way at that position, and a consumer that reaches
\* the end of the stream has received it.
C4_ErrorsDeliveredInPlace ==
    \A i \in 1..Len(yielded) :
       yielded[i][1] = "Err" =>
          /\ rx \in {"open", "eos"} /\ Len(received) >= i => received[i] = yielded[i]
          /\ rx = "open" /\ Len(received) < i =>
                /\ i - Len(received) <= Len(chan \o data)
                /\ (chan \o data)[i - Len(received)] = yielded[i]
          /\ rx = "eos" => Len(received) >= i

\* A consumer has reached the end of a stream in which it received an
\* error and, after it, a chunk.
C4_Witness ==
    /\ rx = "eos"
    /\ \E i \in 1..Len(received) :
          /\ received[i][1] = "Err"
          /\ i < Len(received)
          /\ received[i + 1][1] = "Ok"

\* C5 (uniform acknowledgement): a mutation handler whose register_update
\* call succeeded answers 202 Accepted with the identifier of the update
\* record that call created.
C5_AcceptedWithUpdateId ==
    (pc = "done" /\ IsSome(ret) /\ Unwrap(ret).ok) =>
       /\ handler \in MutationHandlers
       /\ IsSome(registered)
       /\ resp = Some([status |-> 202, updateId |-> Unwrap(registered).id])

\* A batch delete is acknowledged with the second identifier of its index.
C5_Witness ==
    /\ pc = "done"
    /\ handler = "delete_documents"
    /\ IsSome(registered)
    /\ Unwrap(registered).id = 1
    /\ resp = Some([status |-> 202, updateId |-> 1])

\* C6 (registration failure): a mutation handler whose register_update call
\* failed returns that error, with no 202 and no updateId, and no update
\* record exists for the request; a finished mutation request has either a
\* record and its 202, or an error and no record.
C6_FailureIsNotAcknowledged ==
    /\ (pc = "done" /\ IsSome(ret) /\ ~Unwrap(ret).ok) =>
          /\ resp = Some([status |-> IF Unwrap(ret).err = "IndexNotFound"
                                     THEN 404 ELSE 500,
                          error |-> Unwrap(ret).err])
          /\ registered = None
    /\ (pc = "done" /\ handler \in MutationHandlers) =>
          \/ IsSome(registered) /\ Unwrap(resp).status = 202
          \/ registered = None /\ Unwrap(resp).status # 202
                               /\ "updateId" \notin DOMAIN Unwrap(resp)

\* A document addition whose body had been read ends with the error of its
\* failed registration.
C6_Witness ==
    /\ pc = "done"
    /\ handler = "add_documents_csv"
    /\ IsSome(ret)
    /\ ~Unwrap(ret).ok
    /\ Len(yielded) > 0
    /\ Unwrap(resp).status = 500

\* The merge-update handler of the format an add/replace handler takes.
UpdateCounterpart(h) ==
    IF h = "add_documents_json" THEN "update_documents_json"
    ELSE "update_documents_csv"

\* C7 (merge-update routing): the update handlers have a route of their
\* own: where a request on the documents path is dispatched to the
\* add/replace handler of a format, some request on that path, of some
\* method and Content-Type, is dispatched to the update handler of that
\* format.
C7_UpdateHandlersAreRouted ==
    (pc = "handler" /\ handler \in {"add_documents_json", "add_documents_csv"}) =>
       \E m \in Methods, ct \in ContentTypes :
          Dispatch(configure, [req EXCEPT !.method = m, !.content_type = ct])
             = UpdateCounterpart(handler)

\* C8 (route precedence): a POST to /delete-batch is dispatched to the
\* batch-delete handler, and to no other.
C8_DeleteBatchPrecedence ==
    (pc \notin {"idle", "arrived"} /\ req.method = "POST"
                                   /\ req.path = <<"delete-batch">>) =>
       handler = "delete_documents"

\* A POST to /delete-batch has been answered by the batch-delete handler.
C8_Witness ==
    /\ pc = "done"
    /\ req.method = "POST"
    /\ req.path = <<"delete-batch">>
    /\ handler = "delete_documents"
    /\ Unwrap(resp).status = 202

\* The Content-Type header is there, is text, and has lit as a substring.
HeaderHas(ct, lit) ==
    /\ ct # None
    /\ \A i \in 1..Len(ct[1]) : ct[1][i] \in (32..126) \cup {9}
    /\ \E i \in 1..Len(ct[1]) :
          /\ i + Len(lit) - 1 <= Len(ct[1])
          /\ \A k \in 1..Len(lit) : ct[1][i + k - 1] = lit[k]

\* C9 (content negotiation): once routed, a POST to the base path has gone
\* to add_documents_json when the header has application/json, else to
\* add_documents_csv when it has application/csv, and else to no handler,
\* and then it is answered with no update registered and no forwarding
\* task started.
C9_ContentNegotiation ==
    (/\ pc = "handler" \/ (pc = "done" /\ handler \in {"404", "405"})
     /\ req.method = "POST"
     /\ req.path = <<>>) =>
       IF HeaderHas(req.content_type, APPLICATION_JSON)
       THEN handler = "add_documents_json"
       ELSE IF HeaderHas(req.content_type, APPLICATION_CSV)
            THEN handler = "add_documents_csv"
            ELSE /\ handler = "405"
                 /\ calls = 0
                 /\ pending = None
                 /\ registered = None
                 /\ fwd = "none"

\* A header that has both media types has led to the JSON handler.
C9_Witness ==
    /\ pc = "handler"
    /\ req.method = "POST"
    /\ req.path = <<>>
    /\ HeaderHas(req.content_type, APPLICATION_CSV)
    /\ handler = "add_documents_json"

\* The extractor of the query string answered in place of the handler.
ExtractionFailed == resp = Some(QueryPayloadError)

\* C10 (exactly-once submission): no request calls register_update twice; a
\* mutation handler that has run has called it once, for one intent, also
\* when the call failed; a read handler, a request turned down by an
\* extractor and an unrouted request never call it.
C10_ExactlyOneRegisterCall ==
    /\ calls <= 1
    /\ (/\ pc \in {"await", "resumed", "done"}
        /\ handler \in MutationHandlers
        /\ ~ExtractionFailed) =>
          /\ calls = 1
          /\ pc = "await" <=> IsSome(pending)
    /\ (handler \notin MutationHandlers \/ ExtractionFailed) =>
          calls = 0 /\ pending = None
    /\ IsSome(registered) => calls = 1

\* A clear-all whose registration failed has ended after its one call.
C10_Witness ==
    /\ pc = "done"
    /\ handler = "clear_all_documents"
    /\ IsSome(ret)
    /\ ~Unwrap(ret).ok
    /\ calls = 1
    /\ registered = None

\* C11 (acknowledge before ingestion completes): a document addition whose
\* register_update call has returned can answer at once, wherever the
\* forwarding task and the consumer of the stream stand.
C11_AckWaitsOnlyForRegister ==
    (pc = "resumed" /\ handler \in AdditionHandlers) =>
       ENABLED document_addition(AdditionArgs(handler).format,
                                 AdditionArgs(handler).method)

\* The 202 of a document addition is out while the forwarding task is still
\* at work on the body and the consumer has taken nothing from the stream.
C11_Witness ==
    /\ pc = "done"
    /\ handler = "add_documents_json"
    /\ resp = Some([status |-> 202, updateId |-> 0])
    /\ fwd = "send"
    /\ rx = "open"
    /\ received = <<>>

\* The JSON text serde_json writes for the values of the model that are not
\* strings.
C12_Text(v) ==
    CASE v = JNumber(3) -> "3"
      [] v = JNull -> "null"
      [] v = JObject(<< <<"x", JNumber(1)>> >>) -> "{\"x\":1}"

\* The delete intent built from the body of a delete batch, in the call and
\* in the record of the backend.
C12_Intents ==
    { Unwrap(i).update : i \in { i \in {pending, registered} : IsSome(i) } }

\* C12 (delete-batch id coercion): the delete intent of a delete batch
\* carries as many ids as the body has values, in the body's order; the id
\* of a JSON string is its content, the id of any other value is its JSON
\* text.
C12_DeleteBatchIds ==
    IsSome(json_body) =>
       \A intent \in C12_Intents :
          LET body == Unwrap(json_body)
          IN  /\ intent.kind = "DeleteDocuments"
              /\ Len(intent.ids) = Len(body)
              /\ \A i \in 1..Len(body) :
                    intent.ids[i] = IF body[i].type = "String"
                                    THEN body[i].str
                                    ELSE C12_Text(body[i])

\* The backend has registered the batch ["a", 3, {"x":1}] as the ids
\* "a", "3" and "{\"x\":1}".
C12_Witness ==
    /\ json_body = Some(<<JString("a"), JNumber(3), JObject(<< <<"x", JNumber(1)>> >>)>>)
    /\ IsSome(registered)
    /\ Unwrap(registered).update = DeleteDocuments(<<"a", "3", "{\"x\":1}">>)

\* The names of a projection written out with commas between them.
RECURSIVE C13_Joined(_)
C13_Joined(names) ==
    IF Len(names) = 1 THEN names[1]
    ELSE names[1] \o <<",">> \o C13_Joined(Tail(names))

\* Some piece of the text between two commas (or an end of the text) is
\* the single character `*`.
C13_HasStarName(s) ==
    \E i \in 1..Len(s) :
       /\ s[i] = "*"
       /\ i = 1 \/ s[i - 1] = ","
       /\ i = Len(s) \/ s[i + 1] = ","

\* C13 (projection encoding): the projection handed to `documents` is absent
\* exactly when attributesToRetrieve is omitted or one of its
\* comma-separated names is "*"; otherwise it is the list of the names, in
\* the order and multiplicity given, and never holds the name "*".
C13_ProjectionEncoding ==
    IsSome(documents_call) =>
       LET raw == Unwrap(query).attributesToRetrieve
           projection == Unwrap(documents_call).attributes_to_retrieve
       IN  /\ projection = None <=>
                 (raw = None \/ (raw # None /\ C13_HasStarName(Unwrap(raw))))
           /\ projection # None =>
                 LET names == Unwrap(projection)
                 IN  /\ Len(names) >= 1
                     /\ C13_Joined(names) = Unwrap(raw)
                     /\ \A i \in 1..Len(names) :
                           /\ names[i] # <<"*">>
                           /\ \A j \in 1..Len(names[i]) : names[i][j] # ","

\* attributesToRetrieve=a,* reaches the backend with no projection.
C13_Witness ==
    /\ IsSome(documents_call)
    /\ Unwrap(query).attributesToRetrieve = Some(<<"a", ",", "*">>)
    /\ Unwrap(documents_call).attributes_to_retrieve = None

\* C14 (pagination window): `documents` is called with the offset of the
\* query string, 0 when it has none, and with its limit, 20 when it has
\* none; the response carries what the backend returned: at most limit
\* documents, those at the positions offset, offset + 1, .. of the index.
C14_PaginationWindow ==
    IsSome(documents_call) =>
       LET q == Unwrap(query)
           call == Unwrap(documents_call)
           offset == IF q.offset = None THEN 0 ELSE Unwrap(q.offset)
           limit == IF q.limit = None THEN 20 ELSE Unwrap(q.limit)
           rest == IF offset < Len(Stored) THEN Len(Stored) - offset ELSE 0
       IN  /\ call.index_uid = req.index_uid
           /\ call.offset = offset
           /\ call.limit = limit
           /\ Unwrap(resp).status = 200 =>
                 LET docs == Unwrap(resp).documents
                 IN  /\ Len(docs) = IF limit < rest THEN limit ELSE rest
                     /\ \A i \in 1..Len(docs) : docs[i] = Stored[offset + i]

\* A request with offset=1 and no limit is answered with the second and the
\* third document of the index, asked for with limit 20.
C14_Witness ==
    /\ IsSome(documents_call)
    /\ Unwrap(query).offset = Some(1)
    /\ Unwrap(query).limit = None
    /\ Unwrap(documents_call).limit = 20
    /\ resp = Some([status |-> 200, documents |-> <<"d2", "d3">>])

\* The fields the query struct of a handler declares.
C15_Declared(h) ==
    IF h = "get_all_documents" THEN {"offset", "limit", "attributesToRetrieve"}
    ELSE {"primaryKey"}

\* The fields a query string carries.
C15_Present(q) == { f \in DOMAIN q : q[f] # None }

\* C15 (strict query validation): a list-documents or document-addition
\* request whose query string carries a field its handler does not declare
\* is answered with an error by the extractor: no backend call is made, no
\* channel and no forwarding task exist, nothing is registered.
C15_UnknownFieldRejected ==
    (IsSome(query) /\ ~(C15_Present(Unwrap(query)) \subseteq C15_Declared(handler))) =>
       /\ pc = "done"
       /\ Unwrap(resp).status = 400
       /\ calls = 0
       /\ pending = None
       /\ registered = None
       /\ documents_call = None
       /\ fwd = "none"
       /\ rx = "none"
       /\ yielded = <<>>

\* A document addition with ?primaryKey=id&other=x has been turned down.
C15_Witness ==
    /\ handler = "add_documents_json"
    /\ IsSome(query)
    /\ Unwrap(query).other = Some("x")
    /\ Unwrap(query).primaryKey = Some("id")
    /\ resp = Some(QueryPayloadError)

\* The register_update calls of the request: the one in flight and the one
\* the backend has recorded.
C16_Calls == { Unwrap(c) : c \in { c \in {pending, registered} : IsSome(c) } }

\* C16 (is_async classification): register_update is called with
\* is_async = TRUE by every document addition or update and with
\* is_async = FALSE by delete one, delete batch and clear all; the flag
\* follows the kind of the mutation alone.
C16_IsAsyncByKind ==
    \A call \in C16_Calls :
       /\ handler \in AdditionHandlers =>
             call.update.kind = "DocumentAddition" /\ call.is_async = TRUE
       /\ handler \in {"delete_document", "delete_documents", "clear_all_documents"} =>
             call.update.kind # "DocumentAddition" /\ call.is_async = FALSE

\* The backend has recorded the deletion of one document as a call with
\* is_async = FALSE.
C16_Witness ==
    /\ handler = "delete_document"
    /\ IsSome(registered)
    /\ Unwrap(registered).update.kind = "DeleteDocuments"
    /\ Unwrap(registered).is_async = FALSE

\* C17 (browse query limit is positive): for every accepted request the
\* limit handed to `documents` is greater than 0 and the offset is not
\* negative.
C17_LimitPositive ==
    IsSome(documents_call) =>
       /\ Unwrap(documents_call).limit > 0
       /\ Unwrap(documents_call).offset >= 0

\* C18 (forwarder termination and stream end): under fair scheduling the
\* forwarding task of a finite body always comes to its end, whether the
\* consumer drains the stream or drops it; a consumer that keeps polling
\* the stream comes to the end of it or lets go of it; and the end of the
\* stream is seen only once the task is over and every item the body
\* yielded has been received.
C18_ForwarderTerminates ==
    /\ [](fwd \in {"next", "send"} => <>(fwd = "done"))
    /\ [](rx = "open" => <>(rx \in {"eos", "dropped"}))
    /\ [](rx = "eos" => (fwd = "done" /\ received = yielded))

\* The forwarding task has ended after the consumer dropped the stream: a
\* send failed, and the whole body was read all the same.
C18_Witness ==
    /\ fwd = "done"
    /\ rx = "dropped"
    /\ sendErrs >= 1
    /\ Len(yielded) = MaxBody

\* The requests the service has acknowledged.
C19_Acknowledged == { r \in Requests : conc[r].pc = "done" /\ conc[r].resp.status = 202 }

\* C19 (no cross-talk between concurrent requests): whatever the order in
\* which the calls of concurrent mutation requests are served, the response
\* of a request carries the identifier the backend recorded for that
\* request's own update, a request whose call failed is not acknowledged,
\* and two acknowledged requests on one index carry different identifiers.
C19_NoCrossTalk ==
    /\ \A r \in Requests :
          conc[r].pc = "done" =>
             IF IsSome(conc[r].recorded)
             THEN conc[r].resp = [status |-> 202, updateId |-> Unwrap(conc[r].recorded)]
             ELSE conc[r].resp.status # 202
    /\ \A r1, r2 \in C19_Acknowledged :
          (r1 # r2 /\ conc[r1].index_uid = conc[r2].index_uid) =>
             conc[r1].resp.updateId # conc[r2].resp.updateId

\* Two requests on one index, served in the reverse of their numbering, are
\* both acknowledged: request 2 with identifier 0, request 1 with 1.
C19_Witness ==
    /\ conc[1].pc = "done"
    /\ conc[2].pc = "done"
    /\ conc[1].index_uid = conc[2].index_uid
    /\ conc[1].resp = [status |-> 202, updateId |-> 1]
    /\ conc[2].resp = [status |-> 202, updateId |-> 0]

\* C20 (forwarder is started before registration): while a document
\* addition awaits register_update the channel and the forwarding task
\* exist, so the body may be read before the call returns; when the call
\* fails, the handler answers with the error alone, no update is recorded,
\* and nothing the task has read is received by a consumer: the stream is
\* dropped with what it buffered, at the failure and ever after.
C20_ReadItemsAreDiscarded ==
    /\ (handler \in AdditionHandlers /\ pc = "await") =>
          fwd # "none" /\ rx = "open"
    /\ (handler \in AdditionHandlers /\ IsSome(ret) /\ ~Unwrap(ret).ok) =>
          /\ received = <<>>
          /\ chan = <<>>
          /\ rx = "dropped"
          /\ registered = None
          /\ pc = "done" =>
                /\ Unwrap(resp).status \in {404, 500}
                /\ DOMAIN Unwrap(resp) = {"status", "error"}

\* A registration has just failed after the task had read two items and
\* had sent the first into the channel; no send has failed yet, and the
\* consumer has received nothing.
C20_Witness ==
    /\ handler = "add_documents_json"
    /\ pc = "resumed"
    /\ ~Unwrap(ret).ok
    /\ Len(yielded) = 2
    /\ sendErrs = 0
    /\ received = <<>>

=============================================================================
